---- MODULE Spec2Model ----
(***************************************************************************)
(* A model of mongo/db/op_journey.{h,cpp}: the per-operation phase timer   *)
(* (OpJourney), its scope guard (OpJourney::ScopedStage) and the           *)
(* process-wide lock-free aggregator (OpJourney::Observer).                *)
(*                                                                         *)
(* Durations are Nanoseconds::rep values. The model keeps them far below   *)
(* the width of the representation, so sums are plain integer sums; the    *)
(* two extreme values that the Observer's constructor stores are kept as   *)
(* the extreme values of the model's integers.                             *)
(***************************************************************************)
EXTENDS Integers, Sequences, FiniteSets, TLC

\* ---------------------------------------------------------------- stages
kRunning == 0
kNetworkSync == 1
kReleased == 2
kDestroyed == 3

\* The values of enum Stage.
Stage == kRunning..kDestroyed
\* The indices of _profile, _summary, _max and _min: vectors of size kDestroyed.
Buckets == 0..(kDestroyed - 1)

\* Nanoseconds::max().count() and Nanoseconds::min().count().
NanosecondsMax == 2147483647
NanosecondsMin == -2147483647 - 1

\* ---------------------------------------------------------------- bounds
\* Operations finishing concurrently in ObserverSpec.
NumThreads == 2
\* Largest sum of the lifetimes of the finished Journeys drawn in ObserverSpec.
MaxDur == 3
\* Last value of the monotonic clock in Spec.
MaxClock == 2
\* Operations a client thread runs one after the other in Spec.
MaxOps == 2
\* Deepest nesting of ScopedStage guards in Spec.
MaxDepth == 2
\* Last value of the monotonic clock in ScenarioSpec.
ScenarioClock == 17
\* Last value of the monotonic clock in LifecycleSpec.
LifecycleClock == 1

\* ---------------------------------------------------------------- state
VARIABLES
    clock,          \* CLOCK_MONOTONIC, in the unit of Nanoseconds
    pc,             \* per operation: where its thread stands
    getOpJourney,   \* per operation: the boost::optional<OpJourney> decoration
    scopes,         \* per operation: the live ScopedStage guards, innermost last
    lastCall,       \* per operation: the last call made on its Journey
    spent,          \* per operation: clock time passed while each stage was current
    stage,          \* capture's loop variable
    max,            \* capture's local max
    min,            \* capture's local min
    _totalOps,      \* Observer::_totalOps
    _summary,       \* Observer::_summary: per bucket {ops, duration}
    _max,           \* Observer::_max
    _min,           \* Observer::_min
    before,         \* per operation: the Observer and the Journey as capture found them
    bob,            \* per operation: what OpJourney::append rendered
    renderedAt,     \* per operation: the clock value OpJourney::append read
    tracking,       \* gEnableTrackingOpJourney
    hasObserver,    \* whether the getOpJourneyObserver decoration holds an Observer
    svc,            \* the ServiceContext: "startup" until its constructor actions ran
    owner,          \* per operation: the thread of its Client, 0 if it has no Client
    fault,          \* how the process ended, "none" while it runs
    current,        \* the running thread, whose Client is Client::getCurrent()
    counts,         \* per operation: Journeys constructed and capture calls made for it
    reader          \* the thread inside Observer::append, if any

vars == <<clock, pc, getOpJourney, scopes, lastCall, spent, stage, max, min,
          _totalOps, _summary, _max, _min, before, bob, renderedAt,
          tracking, hasObserver, svc, owner, fault, current, counts, reader>>

hostVars == <<tracking, hasObserver, svc, owner, fault, current>>

journeyVars == <<getOpJourney, scopes, lastCall, spent, bob, renderedAt>>
captureVars == <<stage, max, min, before>>
observerVars == <<_totalOps, _summary, _max, _min>>

Ops == DOMAIN pc

\* ---------------------------------------------------------------- helpers
RECURSIVE SumUpTo(_, _)
SumUpTo(f, n) == IF n < 0 THEN 0 ELSE f[n] + SumUpTo(f, n - 1)

\* The sum of a vector indexed by Buckets.
SumBuckets(f) == SumUpTo(f, kDestroyed - 1)

ZeroProfile == [b \in Buckets |-> 0]

getElapsedTime == clock

\* OpJourney::Observer::Observer
ObserverCtor ==
    [_totalOps |-> 0,
     _summary  |-> [b \in Buckets |-> [ops |-> 0, duration |-> 0]],
     _max      |-> [b \in Buckets |-> NanosecondsMin],
     _min      |-> [b \in Buckets |-> NanosecondsMax]]

\* ---------------------------------------------------------------- Journey
\* OpJourney::OpJourney(opCtx, stage)
OpJourneyCtor(stg, now) ==
    [_created |-> now,
     _current |-> [stage |-> stg, entered |-> now],
     _profile |-> ZeroProfile]

\* enterStage that keeps the old entry time: an interval is counted again.
enterStageNoStamp(j, stg, now) ==
    LET oldStage == j._current.stage
    IN  IF oldStage = stg
        THEN j
        ELSE [j EXCEPT !._profile[oldStage] = @ + (now - j._current.entered),
                       !._current.stage = stg]

\* enterStage without the early return for the current stage.
enterStageAlways(j, stg, now) ==
    LET oldStage == j._current.stage
    IN  [j EXCEPT !._profile[oldStage] = @ + (now - j._current.entered),
                  !._current = [stage |-> stg, entered |-> now]]

\* enterStage that measures the interval from _created.
enterStageSinceCreated(j, stg, now) ==
    LET oldStage == j._current.stage
    IN  IF oldStage = stg
        THEN j
        ELSE [j EXCEPT !._profile[oldStage] = @ + (now - j._created),
                       !._current = [stage |-> stg, entered |-> now]]

\* OpJourney::enterStage: the Journey after the call, `now` being what
\* getElapsedTime() returns if the call reads the clock.
enterStage(j, stg, now) ==
    LET oldStage == j._current.stage
    IN  IF oldStage = stg
        THEN j
        ELSE [j EXCEPT !._profile[oldStage] = @ + (now - j._current.entered),
                       !._current = [stage |-> stg, entered |-> now]]

\* append that takes the clock value itself for the total.
JourneyAppendSinceZero(j, now) ==
    LET shown == {b \in Buckets : j._profile[b] # 0}
        sum   == SumBuckets([b \in Buckets |-> IF b \in shown THEN j._profile[b] ELSE 0])
    IN  [stages |-> [b \in shown |-> j._profile[b]], other |-> now - sum]

\* OpJourney::append: the document it builds, `now` being the clock it reads.
JourneyAppend(j, now) ==
    LET shown == {b \in Buckets : j._profile[b] # 0}
        sum   == SumBuckets([b \in Buckets |-> IF b \in shown THEN j._profile[b] ELSE 0])
        total == now - j._created
    IN  [stages |-> [b \in shown |-> j._profile[b]], other |-> total - sum]

\* A ScopedStage that reads _oldStage after it has switched.
ScopedStageCtorLate(j, stg, now) ==
    [_oldStage |-> enterStage(j, stg, now)._current.stage,
     journey   |-> enterStage(j, stg, now)]

\* ScopedStage::ScopedStage: the guard's _oldStage and the Journey after it.
ScopedStageCtor(j, stg, now) ==
    [_oldStage |-> j._current.stage, journey |-> enterStage(j, stg, now)]

\* ScopedStage::~ScopedStage
ScopedStageDtor(guard, j, now) == enterStage(j, guard._oldStage, now)

\* A call on a Journey: the stage it hands to enterStage and the Journey's
\* current stage when it is made; for ~ScopedStage also the stage that was
\* current just before its guard was constructed; and whether enterStage has
\* been called explicitly since the outermost live guard was constructed.
Call(op, stg, oldStage) ==
    [op |-> op, stage |-> stg, oldStage |-> oldStage, entry |-> oldStage, explicit |-> FALSE]

NoCall == Call("none", kRunning, kRunning)

\* The Observer and the Journey as a capture call finds them.
Found(observer, journey) == [observer |-> observer, journey |-> journey]

J(t) == getOpJourney[t][1]

\* The monotonic clock advances. A call on a Journey reads it at most once and
\* is one step against it.
Tick(limit) ==
    /\ clock < limit
    /\ clock' = clock + 1
    /\ spent' = [t \in Ops |->
                   IF getOpJourney[t] # <<>> /\ J(t)._current.stage \in Buckets
                   THEN [spent[t] EXCEPT ![J(t)._current.stage] = @ + 1]
                   ELSE spent[t]]
    /\ UNCHANGED <<pc, getOpJourney, scopes, lastCall, bob, renderedAt>>
    /\ UNCHANGED captureVars
    /\ UNCHANGED observerVars
    /\ UNCHANGED <<hostVars, reader, counts>>

\* OpJourney::enable with tracking enabled, called by the client thread on an
\* operation that has no Journey yet: a thread's first operation, or the one it
\* runs after the previous one was destroyed.
Enable(t) ==
    /\ pc[t] \in {"none", "done"}
    /\ _totalOps < MaxOps
    /\ getOpJourney[t] = <<>>
    /\ getOpJourney' = [getOpJourney EXCEPT ![t] = <<OpJourneyCtor(kRunning, getElapsedTime)>>]
    /\ pc' = [pc EXCEPT ![t] = "live"]
    /\ lastCall' = [lastCall EXCEPT ![t] = Call("enable", kRunning, kRunning)]
    /\ spent' = [spent EXCEPT ![t] = ZeroProfile]
    /\ bob' = [bob EXCEPT ![t] = <<>>]
    /\ renderedAt' = [renderedAt EXCEPT ![t] = 0]
    /\ before' = [before EXCEPT ![t] = Found(ObserverCtor, <<>>)]
    /\ UNCHANGED <<clock, scopes, stage, max, min>>
    /\ UNCHANGED observerVars
    /\ counts' = [counts EXCEPT ![t] =
                    IF pc[t] = "done"
                    THEN [journeys |-> 1, captures |-> 0]
                    ELSE [@ EXCEPT !.journeys = @ + 1]]
    /\ UNCHANGED <<hostVars, reader>>

\* OpJourneyStage(opCtx, stg) with tracking enabled.
EnterStage(t, stg) ==
    /\ pc[t] = "live"
    /\ getOpJourney' = [getOpJourney EXCEPT ![t] = <<enterStage(J(t), stg, getElapsedTime)>>]
    /\ lastCall' = [lastCall EXCEPT ![t] =
                      [Call("enterStage", stg, J(t)._current.stage)
                         EXCEPT !.explicit = (scopes[t] # <<>>)]]
    /\ UNCHANGED <<clock, pc, scopes, spent, bob, renderedAt>>
    /\ UNCHANGED captureVars
    /\ UNCHANGED observerVars
    /\ UNCHANGED <<hostVars, reader, counts>>

\* makeScopedOpJourney(opCtx, stg) with tracking enabled.
EnterScope(t, stg) ==
    /\ pc[t] = "live"
    /\ Len(scopes[t]) < MaxDepth
    /\ LET made == ScopedStageCtor(J(t), stg, getElapsedTime)
       IN  /\ getOpJourney' = [getOpJourney EXCEPT ![t] = <<made.journey>>]
           /\ scopes' = [scopes EXCEPT ![t] =
                           Append(@, [_oldStage |-> made._oldStage,
                                      entry |-> J(t)._current.stage])]
    /\ lastCall' = [lastCall EXCEPT ![t] =
                      [Call("ScopedStage", stg, J(t)._current.stage)
                         EXCEPT !.explicit = (scopes[t] # <<>> /\ lastCall[t].explicit)]]
    /\ UNCHANGED <<clock, pc, spent, bob, renderedAt>>
    /\ UNCHANGED captureVars
    /\ UNCHANGED observerVars
    /\ UNCHANGED <<hostVars, reader, counts>>

\* The innermost ScopedStage goes out of scope.
LeaveScope(t) ==
    /\ pc[t] = "live"
    /\ scopes[t] # <<>>
    /\ LET guard == scopes[t][Len(scopes[t])]
       IN  /\ getOpJourney' = [getOpJourney EXCEPT ![t] =
                                 <<ScopedStageDtor(guard, J(t), getElapsedTime)>>]
           /\ lastCall' = [lastCall EXCEPT ![t] =
                             [Call("~ScopedStage", guard._oldStage, J(t)._current.stage)
                                EXCEPT !.entry = guard.entry,
                                       !.explicit = lastCall[t].explicit]]
    /\ scopes' = [scopes EXCEPT ![t] = SubSeq(@, 1, Len(@) - 1)]
    /\ UNCHANGED <<clock, pc, spent, bob, renderedAt>>
    /\ UNCHANGED captureVars
    /\ UNCHANGED observerVars
    /\ UNCHANGED <<hostVars, reader, counts>>

\* ~OpJourney that goes to capture without entering kDestroyed.
DestroyNoEnter(t) ==
    /\ pc[t] = "live"
    /\ scopes[t] = <<>>
    /\ lastCall' = [lastCall EXCEPT ![t] = Call("~OpJourney", kDestroyed, J(t)._current.stage)]
    /\ pc' = [pc EXCEPT ![t] = "dtor"]
    /\ UNCHANGED <<clock, getOpJourney, scopes, spent, bob, renderedAt>>
    /\ UNCHANGED captureVars
    /\ UNCHANGED observerVars
    /\ UNCHANGED <<hostVars, reader, counts>>

\* OpJourney::~OpJourney, first statement: enterStage(kDestroyed).
Destroy(t) ==
    /\ pc[t] = "live"
    /\ scopes[t] = <<>>
    /\ getOpJourney' = [getOpJourney EXCEPT ![t] =
                          <<enterStage(J(t), kDestroyed, getElapsedTime)>>]
    /\ lastCall' = [lastCall EXCEPT ![t] = Call("~OpJourney", kDestroyed, J(t)._current.stage)]
    /\ pc' = [pc EXCEPT ![t] = "dtor"]
    /\ UNCHANGED <<clock, scopes, spent, bob, renderedAt>>
    /\ UNCHANGED captureVars
    /\ UNCHANGED observerVars
    /\ UNCHANGED <<hostVars, reader, counts>>

\* ---------------------------------------------------------------- Observer
TheObserver ==
    [_totalOps |-> _totalOps, _summary |-> _summary, _max |-> _max, _min |-> _min]

\* The loop head of capture: the first stage from s on whose duration is not
\* zero, or _summary.size() when the loop is over.
RECURSIVE NextBucket(_, _)
NextBucket(j, s) ==
    IF s >= kDestroyed THEN kDestroyed
    ELSE IF j._profile[s] # 0 THEN s
    ELSE NextBucket(j, s + 1)

\* Where capture stands once its loop variable is to become s.
LoopTo(t, s) ==
    LET n == NextBucket(J(t), s)
    IN  /\ stage' = [stage EXCEPT ![t] = n]
        /\ pc' = [pc EXCEPT ![t] = IF n = kDestroyed THEN "total" ELSE "ops"]

durNanos(t) == J(t)._profile[stage[t]]

\* Observer::capture is entered: the invariant, then the loop head.
CaptureCall(t) ==
    /\ pc[t] = "dtor"
    /\ IF J(t)._current.stage = kDestroyed
       THEN LoopTo(t, 0)
       ELSE /\ pc' = [pc EXCEPT ![t] = "abort"]
            /\ UNCHANGED stage
    /\ before' = [before EXCEPT ![t] = Found(TheObserver, getOpJourney[t])]
    /\ UNCHANGED <<clock, max, min>>
    /\ UNCHANGED journeyVars
    /\ UNCHANGED observerVars
    /\ counts' = [counts EXCEPT ![t].captures = @ + 1]
    /\ UNCHANGED <<hostVars, reader>>

\* _summary[stage].ops.fetchAndAdd(1)
CaptureOps(t) ==
    /\ pc[t] = "ops"
    /\ _summary' = [_summary EXCEPT ![stage[t]].ops = @ + 1]
    /\ pc' = [pc EXCEPT ![t] = "duration"]
    /\ UNCHANGED <<clock, _totalOps, _max, _min>>
    /\ UNCHANGED journeyVars
    /\ UNCHANGED captureVars
    /\ UNCHANGED <<hostVars, reader, counts>>

\* The duration stored instead of added.
CaptureDurationStore(t) ==
    /\ pc[t] = "duration"
    /\ _summary' = [_summary EXCEPT ![stage[t]].duration = durNanos(t)]
    /\ pc' = [pc EXCEPT ![t] = "maxLoad"]
    /\ UNCHANGED <<clock, _totalOps, _max, _min>>
    /\ UNCHANGED journeyVars
    /\ UNCHANGED captureVars
    /\ UNCHANGED <<hostVars, reader, counts>>

\* _summary[stage].duration.fetchAndAdd(durNanos)
CaptureDuration(t) ==
    /\ pc[t] = "duration"
    /\ _summary' = [_summary EXCEPT ![stage[t]].duration = @ + durNanos(t)]
    /\ pc' = [pc EXCEPT ![t] = "maxLoad"]
    /\ UNCHANGED <<clock, _totalOps, _max, _min>>
    /\ UNCHANGED journeyVars
    /\ UNCHANGED captureVars
    /\ UNCHANGED <<hostVars, reader, counts>>

\* The load followed by a compare-and-swap whatever the loaded value is.
CaptureMaxLoadAlways(t) ==
    /\ pc[t] = "maxLoad"
    /\ max' = [max EXCEPT ![t] = _max[stage[t]]]
    /\ pc' = [pc EXCEPT ![t] = "maxCas"]
    /\ UNCHANGED <<clock, stage, min, before>>
    /\ UNCHANGED journeyVars
    /\ UNCHANGED observerVars
    /\ UNCHANGED <<hostVars, reader, counts>>

\* max = _max[stage].load(), then the first half of the loop condition.
CaptureMaxLoad(t) ==
    /\ pc[t] = "maxLoad"
    /\ max' = [max EXCEPT ![t] = _max[stage[t]]]
    /\ pc' = [pc EXCEPT ![t] = IF durNanos(t) > _max[stage[t]] THEN "maxCas" ELSE "minLoad"]
    /\ UNCHANGED <<clock, stage, min, before>>
    /\ UNCHANGED journeyVars
    /\ UNCHANGED observerVars
    /\ UNCHANGED <<hostVars, reader, counts>>

\* The new max stored without comparing with what was loaded.
CaptureMaxStore(t) ==
    /\ pc[t] = "maxCas"
    /\ _max' = [_max EXCEPT ![stage[t]] = durNanos(t)]
    /\ pc' = [pc EXCEPT ![t] = "minLoad"]
    /\ UNCHANGED <<clock, stage, max, min, before, _totalOps, _summary, _min>>
    /\ UNCHANGED journeyVars
    /\ UNCHANGED <<hostVars, reader, counts>>

\* A compare-and-swap that, when it fails, is tried again with the value loaded
\* before: neither the failed call nor the loop refreshes max.
CaptureMaxCasNoReload(t) ==
    /\ pc[t] = "maxCas"
    /\ IF _max[stage[t]] = max[t]
       THEN /\ _max' = [_max EXCEPT ![stage[t]] = durNanos(t)]
            /\ pc' = [pc EXCEPT ![t] = "minLoad"]
       ELSE UNCHANGED <<_max, pc>>
    /\ UNCHANGED <<clock, stage, max, min, before, _totalOps, _summary, _min>>
    /\ UNCHANGED journeyVars
    /\ UNCHANGED <<hostVars, reader, counts>>

\* _max[stage].compareAndSwap(&max, durNanos)
CaptureMaxCas(t) ==
    /\ pc[t] = "maxCas"
    /\ IF _max[stage[t]] = max[t]
       THEN /\ _max' = [_max EXCEPT ![stage[t]] = durNanos(t)]
            /\ pc' = [pc EXCEPT ![t] = "minLoad"]
            /\ UNCHANGED max
       ELSE /\ max' = [max EXCEPT ![t] = _max[stage[t]]]
            /\ pc' = [pc EXCEPT ![t] = "maxLoad"]
            /\ UNCHANGED _max
    /\ UNCHANGED <<clock, stage, min, before, _totalOps, _summary, _min>>
    /\ UNCHANGED journeyVars
    /\ UNCHANGED <<hostVars, reader, counts>>

\* min = _min[stage].load(), then the first half of the loop condition; when
\* the loop ends here the for loop goes on to the next stage.
CaptureMinLoad(t) ==
    /\ pc[t] = "minLoad"
    /\ min' = [min EXCEPT ![t] = _min[stage[t]]]
    /\ IF durNanos(t) < _min[stage[t]]
       THEN /\ pc' = [pc EXCEPT ![t] = "minCas"]
            /\ UNCHANGED stage
       ELSE LoopTo(t, stage[t] + 1)
    /\ UNCHANGED <<clock, max, before>>
    /\ UNCHANGED journeyVars
    /\ UNCHANGED observerVars
    /\ UNCHANGED <<hostVars, reader, counts>>

\* The new min stored without comparing with what was loaded.
CaptureMinStore(t) ==
    /\ pc[t] = "minCas"
    /\ _min' = [_min EXCEPT ![stage[t]] = durNanos(t)]
    /\ LoopTo(t, stage[t] + 1)
    /\ UNCHANGED <<clock, max, min, before, _totalOps, _summary, _max>>
    /\ UNCHANGED journeyVars
    /\ UNCHANGED <<hostVars, reader, counts>>

\* _min[stage].compareAndSwap(&min, durNanos)
CaptureMinCas(t) ==
    /\ pc[t] = "minCas"
    /\ IF _min[stage[t]] = min[t]
       THEN /\ _min' = [_min EXCEPT ![stage[t]] = durNanos(t)]
            /\ LoopTo(t, stage[t] + 1)
            /\ UNCHANGED min
       ELSE /\ min' = [min EXCEPT ![t] = _min[stage[t]]]
            /\ pc' = [pc EXCEPT ![t] = "minLoad"]
            /\ UNCHANGED <<_min, stage>>
    /\ UNCHANGED <<clock, max, before, _totalOps, _summary, _max>>
    /\ UNCHANGED journeyVars
    /\ UNCHANGED <<hostVars, reader, counts>>

\* The increment of _totalOps inside the loop body: a Journey with no nonzero
\* duration is not counted.
CaptureTotalInLoop(t) ==
    /\ pc[t] = "total"
    /\ _totalOps' = IF J(t)._profile = ZeroProfile THEN _totalOps ELSE _totalOps + 1
    /\ pc' = [pc EXCEPT ![t] = "append"]
    /\ stage' = [stage EXCEPT ![t] = 0]
    /\ max' = [max EXCEPT ![t] = 0]
    /\ min' = [min EXCEPT ![t] = 0]
    /\ UNCHANGED <<clock, before, _summary, _max, _min>>
    /\ UNCHANGED journeyVars
    /\ UNCHANGED <<hostVars, reader, counts>>

\* _totalOps loaded when capture is entered and stored, plus one, at its end.
CaptureTotalRacy(t) ==
    /\ pc[t] = "total"
    /\ _totalOps' = before[t].observer._totalOps + 1
    /\ pc' = [pc EXCEPT ![t] = "append"]
    /\ stage' = [stage EXCEPT ![t] = 0]
    /\ max' = [max EXCEPT ![t] = 0]
    /\ min' = [min EXCEPT ![t] = 0]
    /\ UNCHANGED <<clock, before, _summary, _max, _min>>
    /\ UNCHANGED journeyVars
    /\ UNCHANGED <<hostVars, reader, counts>>

\* _totalOps.fetchAndAdd(1), and capture returns: its locals are gone.
CaptureTotal(t) ==
    /\ pc[t] = "total"
    /\ _totalOps' = _totalOps + 1
    /\ pc' = [pc EXCEPT ![t] = "append"]
    /\ stage' = [stage EXCEPT ![t] = 0]
    /\ max' = [max EXCEPT ![t] = 0]
    /\ min' = [min EXCEPT ![t] = 0]
    /\ UNCHANGED <<clock, before, _summary, _max, _min>>
    /\ UNCHANGED journeyVars
    /\ UNCHANGED <<hostVars, reader, counts>>

Capture(t) ==
    \/ CaptureOps(t)
    \/ CaptureDuration(t)
    \/ CaptureMaxLoad(t)
    \/ CaptureMaxCas(t)
    \/ CaptureMinLoad(t)
    \/ CaptureMinCas(t)
    \/ CaptureTotal(t)

\* ~OpJourney after capture: append(bob) and the log line.
Render(t) ==
    /\ pc[t] = "append"
    /\ bob' = [bob EXCEPT ![t] = <<JourneyAppend(J(t), getElapsedTime)>>]
    /\ renderedAt' = [renderedAt EXCEPT ![t] = getElapsedTime]
    /\ pc' = [pc EXCEPT ![t] = "log"]
    /\ UNCHANGED <<clock, getOpJourney, scopes, lastCall, spent>>
    /\ UNCHANGED captureVars
    /\ UNCHANGED observerVars
    /\ UNCHANGED <<hostVars, reader, counts>>

\* ~OpJourney returns: the Journey is gone.
Finish(t) ==
    /\ pc[t] = "log"
    /\ getOpJourney' = [getOpJourney EXCEPT ![t] = <<>>]
    /\ pc' = [pc EXCEPT ![t] = "done"]
    /\ UNCHANGED <<clock, scopes, lastCall, spent, bob, renderedAt>>
    /\ UNCHANGED captureVars
    /\ UNCHANGED observerVars
    /\ UNCHANGED <<hostVars, reader, counts>>

\* ---------------------------------------------------------------- Observer::append
\* No thread is inside Observer::append: its locals are not set, its
\* BSONObjBuilder is empty. returned records how many capture calls had
\* returned when append made its first load.
NoReader ==
    [pc |-> "idle", ops |-> 0, stage |-> 0, min |-> 0, max |-> 0, duration |-> 0,
     divisor |-> 0, bob |-> <<>>, returned |-> 0]

\* Everything but the reader thread's own state, which is all append writes.
ReaderOnly ==
    /\ UNCHANGED <<clock, pc>>
    /\ UNCHANGED journeyVars
    /\ UNCHANGED captureVars
    /\ UNCHANGED observerVars
    /\ UNCHANGED <<hostVars, counts>>

\* const auto ops = _totalOps.load()
AppendBegin ==
    /\ reader.pc = "idle"
    /\ reader' = [reader EXCEPT !.pc = "opsLoad", !.ops = _totalOps, !.stage = 0,
                                !.returned = Cardinality({t \in Ops : pc[t] = "append"})]
    /\ ReaderOnly

\* The loop head and if (_summary[stage].ops.loadRelaxed() == 0) continue
AppendOpsLoad ==
    /\ reader.pc = "opsLoad"
    /\ reader' = IF reader.stage = kDestroyed
                 THEN [reader EXCEPT !.pc = "stable"]
                 ELSE IF _summary[reader.stage].ops = 0
                 THEN [reader EXCEPT !.stage = @ + 1]
                 ELSE [reader EXCEPT !.pc = "minLoad"]
    /\ ReaderOnly

\* const auto min = Nanoseconds(_min[stage].loadRelaxed())
AppendMinLoad ==
    /\ reader.pc = "minLoad"
    /\ reader' = [reader EXCEPT !.pc = "maxLoad", !.min = _min[reader.stage]]
    /\ ReaderOnly

\* const auto max = Nanoseconds(_max[stage].loadRelaxed())
AppendMaxLoad ==
    /\ reader.pc = "maxLoad"
    /\ reader' = [reader EXCEPT !.pc = "avgLoad", !.max = _max[reader.stage]]
    /\ ReaderOnly

\* The first of the two loads of duration / ops; C++ leaves open which operand
\* of the division is evaluated first.
AppendAvgFirst ==
    /\ reader.pc = "avgLoad"
    /\ \/ reader' = [reader EXCEPT !.pc = "avgOps",
                                    !.duration = _summary[reader.stage].duration]
       \/ reader' = [reader EXCEPT !.pc = "avgDuration",
                                    !.divisor = _summary[reader.stage].ops]
    /\ ReaderOnly

\* The second load, the division and bob.append(stageToString(stage), ...).
AppendAvgSecond ==
    /\ reader.pc \in {"avgOps", "avgDuration"}
    /\ LET duration == IF reader.pc = "avgDuration"
                       THEN _summary[reader.stage].duration ELSE reader.duration
           divisor  == IF reader.pc = "avgOps"
                       THEN _summary[reader.stage].ops ELSE reader.divisor
       IN  reader' = [reader EXCEPT
                        !.pc = "opsLoad",
                        !.bob = Append(@, [stage |-> reader.stage,
                                           min |-> reader.min,
                                           max |-> reader.max,
                                           avg |-> duration \div divisor]),
                        !.stage = @ + 1,
                        !.min = 0, !.max = 0, !.duration = 0, !.divisor = 0]
    /\ ReaderOnly

\* append that reports stable whatever the second load returns.
AppendStableAlways ==
    /\ reader.pc = "stable"
    /\ reader' = [reader EXCEPT
                     !.pc = "done",
                     !.bob = Append(@, [operations |-> reader.ops, stable |-> TRUE])]
    /\ ReaderOnly

\* bob.append("operations", ops); bob.append("stable", ops == _totalOps.load())
AppendStable ==
    /\ reader.pc = "stable"
    /\ reader' = [reader EXCEPT
                     !.pc = "done",
                     !.bob = Append(@, [operations |-> reader.ops,
                                        stable |-> (reader.ops = _totalOps)])]
    /\ ReaderOnly

\* OpJourney::Observer::append, load by load.
ObserverAppend ==
    \/ AppendBegin
    \/ AppendOpsLoad
    \/ AppendMinLoad
    \/ AppendMaxLoad
    \/ AppendAvgFirst
    \/ AppendAvgSecond
    \/ AppendStable

\* A process past startup with tracking enabled: the Observer exists, and every
\* operation belongs to the Client of its own thread.
HostRunning(ops) ==
    /\ tracking = TRUE
    /\ hasObserver = TRUE
    /\ svc = "running"
    /\ owner = [t \in ops |-> t]
    /\ fault = "none"
    /\ current = 1
    /\ reader = NoReader

\* ---------------------------------------------------------------- Spec
\* One client thread runs operations one after the other, each with a Journey.
OpsInit(ops, startClocks) ==
    /\ clock \in startClocks
    /\ pc = [t \in ops |-> "none"]
    /\ getOpJourney = [t \in ops |-> <<>>]
    /\ scopes = [t \in ops |-> <<>>]
    /\ lastCall = [t \in ops |-> NoCall]
    /\ spent = [t \in ops |-> ZeroProfile]
    /\ stage = [t \in ops |-> 0]
    /\ max = [t \in ops |-> 0]
    /\ min = [t \in ops |-> 0]
    /\ _totalOps = ObserverCtor._totalOps
    /\ _summary = ObserverCtor._summary
    /\ _max = ObserverCtor._max
    /\ _min = ObserverCtor._min
    /\ before = [t \in ops |-> Found(ObserverCtor, <<>>)]
    /\ bob = [t \in ops |-> <<>>]
    /\ renderedAt = [t \in ops |-> 0]
    /\ counts = [t \in ops |-> [journeys |-> 0, captures |-> 0]]
    /\ reader = NoReader

InitFor(ops, startClocks) ==
    /\ OpsInit(ops, startClocks)
    /\ HostRunning(ops)

Init == InitFor({1}, {0})

Teardown(t) ==
    \/ Destroy(t)
    \/ CaptureCall(t)
    \/ Capture(t)
    \/ Render(t)
    \/ Finish(t)

Next ==
    \/ Tick(MaxClock)
    \/ \E t \in Ops :
        \/ Enable(t)
        \/ \E stg \in Buckets : EnterStage(t, stg)
        \/ \E stg \in Buckets : EnterScope(t, stg)
        \/ LeaveScope(t)
        \/ Teardown(t)

Spec == Init /\ [][Next]_vars

\* ---------------------------------------------------------------- ScenarioSpec
\* One Journey, just created in kRunning at clock 0, driven by explicit
\* enterStage calls until it is torn down.
ScenarioInit ==
    /\ clock = 0
    /\ pc = [t \in {1} |-> "live"]
    /\ getOpJourney = [t \in {1} |-> <<OpJourneyCtor(kRunning, 0)>>]
    /\ scopes = [t \in {1} |-> <<>>]
    /\ lastCall = [t \in {1} |-> Call("enable", kRunning, kRunning)]
    /\ spent = [t \in {1} |-> ZeroProfile]
    /\ stage = [t \in {1} |-> 0]
    /\ max = [t \in {1} |-> 0]
    /\ min = [t \in {1} |-> 0]
    /\ _totalOps = ObserverCtor._totalOps
    /\ _summary = ObserverCtor._summary
    /\ _max = ObserverCtor._max
    /\ _min = ObserverCtor._min
    /\ before = [t \in {1} |-> Found(ObserverCtor, <<>>)]
    /\ bob = [t \in {1} |-> <<>>]
    /\ renderedAt = [t \in {1} |-> 0]
    /\ counts = [t \in {1} |-> [journeys |-> 1, captures |-> 0]]
    /\ HostRunning({1})

ScenarioNext ==
    \/ Tick(ScenarioClock)
    \/ \E t \in Ops :
        \/ \E stg \in Buckets : EnterStage(t, stg)
        \/ Teardown(t)

ScenarioSpec == ScenarioInit /\ [][ScenarioNext]_vars

\* ---------------------------------------------------------------- ObserverSpec
\* The profiles a finished Journey may hold: its buckets add up to its lifetime.
Profiles == {p \in [Buckets -> 0..MaxDur] : SumBuckets(p) <= MaxDur}

RECURSIVE SumLifetimes(_, _)
SumLifetimes(ps, n) == IF n = 0 THEN 0 ELSE SumBuckets(ps[n]) + SumLifetimes(ps, n - 1)

\* A Journey created at clock 0 that ~OpJourney has taken to kDestroyed.
Finished(p) ==
    [_created |-> 0,
     _current |-> [stage |-> kDestroyed, entered |-> SumBuckets(p)],
     _profile |-> p]

\* Up to NumThreads operations end at once: every thread has entered capture
\* and none has touched the Observer yet.
ObserverInit ==
    \E n \in 1..NumThreads : \E ps \in [1..n -> Profiles] :
        /\ SumLifetimes(ps, n) <= MaxDur
        /\ clock = MaxDur
        /\ getOpJourney = [t \in 1..n |-> <<Finished(ps[t])>>]
        /\ stage = [t \in 1..n |-> NextBucket(Finished(ps[t]), 0)]
        /\ pc = [t \in 1..n |->
                   IF NextBucket(Finished(ps[t]), 0) = kDestroyed THEN "total" ELSE "ops"]
        /\ scopes = [t \in 1..n |-> <<>>]
        /\ lastCall = [t \in 1..n |-> Call("~OpJourney", kDestroyed, kRunning)]
        /\ spent = [t \in 1..n |-> ps[t]]
        /\ max = [t \in 1..n |-> 0]
        /\ min = [t \in 1..n |-> 0]
        /\ _totalOps = ObserverCtor._totalOps
        /\ _summary = ObserverCtor._summary
        /\ _max = ObserverCtor._max
        /\ _min = ObserverCtor._min
        /\ before = [t \in 1..n |-> Found(ObserverCtor, <<Finished(ps[t])>>)]
        /\ bob = [t \in 1..n |-> <<>>]
        /\ renderedAt = [t \in 1..n |-> 0]
        /\ counts = [t \in 1..n |-> [journeys |-> 1, captures |-> 1]]
        /\ HostRunning(1..n)

ObserverNext == \E t \in Ops : Capture(t)

ObserverSpec == ObserverInit /\ [][ObserverNext]_vars

\* Every thread that can take a step of its capture call eventually takes one.
ObserverFairSpec ==
    ObserverSpec /\ \A t \in 1..NumThreads : WF_vars(t \in Ops /\ Capture(t))

\* ---------------------------------------------------------------- AppendSpec
\* One thread calls Observer::append at any moment while the capture calls of
\* ObserverSpec are under way or over.
AppendNext ==
    \/ \E t \in Ops : Capture(t)
    \/ ObserverAppend

AppendSpec == ObserverInit /\ [][AppendNext]_vars

\* ---------------------------------------------------------------- LifecycleSpec
\* A process from its startup on: the tracking flag is whatever the
\* configuration says, the ServiceContext runs its constructor actions, and
\* then any thread may make any call on an operation, its own or not.
Threads == 1..NumThreads

\* What dereferencing a null pointer can come to: the process is killed by the
\* memory fault, or goes on in some state the language does not define.
UndefinedOutcomes == {"segfault", "undefined"}

\* runsOnClientThread(opCtx), evaluated by the running thread.
runsOnClientThread(t) == owner[t] = 0 \/ owner[t] = current

\* A call on operation t that touches no Journey and no Observer: it returns
\* (outcomes = {"none"}) or ends the process.
Outcome(outcomes, t, call) ==
    /\ fault' \in outcomes
    /\ lastCall' = [lastCall EXCEPT ![t] = call]
    /\ UNCHANGED <<clock, pc, getOpJourney, scopes, spent, bob, renderedAt>>
    /\ UNCHANGED captureVars
    /\ UNCHANGED observerVars
    /\ UNCHANGED <<tracking, hasObserver, svc, owner, current, counts, reader>>

\* Another thread runs next.
Switch(c) ==
    /\ fault = "none"
    /\ current # c
    /\ current' = c
    /\ UNCHANGED <<tracking, hasObserver, svc, owner, fault, counts, reader>>
    /\ UNCHANGED <<clock, pc>>
    /\ UNCHANGED journeyVars
    /\ UNCHANGED captureVars
    /\ UNCHANGED observerVars

\* A constructor action that never emplaces the Observer.
RegisterNoObserver ==
    /\ fault = "none"
    /\ svc = "startup"
    /\ svc' = "running"
    /\ UNCHANGED <<tracking, hasObserver, owner, fault, current, counts, reader>>
    /\ UNCHANGED <<clock, pc>>
    /\ UNCHANGED journeyVars
    /\ UNCHANGED captureVars
    /\ UNCHANGED observerVars

\* registerOpJourneyObserver, run when the ServiceContext is constructed.
Register ==
    /\ fault = "none"
    /\ svc = "startup"
    /\ svc' = "running"
    /\ hasObserver' = tracking
    /\ _totalOps' = ObserverCtor._totalOps
    /\ _summary' = ObserverCtor._summary
    /\ _max' = ObserverCtor._max
    /\ _min' = ObserverCtor._min
    /\ UNCHANGED <<tracking, owner, fault, current, counts, reader>>
    /\ UNCHANGED <<clock, pc>>
    /\ UNCHANGED journeyVars
    /\ UNCHANGED captureVars

\* enable that does not look at the tracking flag.
EnableCallNoFlag(t) ==
    /\ fault = "none"
    /\ svc = "running"
    /\ pc[t] \in {"none", "live", "done"}
    /\ IF ~runsOnClientThread(t)
       THEN Outcome({"invariant"}, t, Call("enable", kRunning, kRunning))
       ELSE IF getOpJourney[t] # <<>>
       THEN Outcome({"invariant"}, t, Call("enable", kRunning, kRunning))
       ELSE Enable(t)

\* enable that emplaces a Journey whether or not one is attached.
EnableCallAgain(t) ==
    /\ fault = "none"
    /\ svc = "running"
    /\ pc[t] \in {"none", "live", "done"}
    /\ IF ~tracking
       THEN Outcome({"none"}, t, Call("enable", kRunning, kRunning))
       ELSE IF ~runsOnClientThread(t)
       THEN Outcome({"invariant"}, t, Call("enable", kRunning, kRunning))
       ELSE IF getOpJourney[t] # <<>>
       THEN /\ getOpJourney' = [getOpJourney EXCEPT ![t] =
                                  <<OpJourneyCtor(kRunning, getElapsedTime)>>]
            /\ counts' = [counts EXCEPT ![t].journeys = @ + 1]
            /\ lastCall' = [lastCall EXCEPT ![t] = Call("enable", kRunning, kRunning)]
            /\ UNCHANGED <<clock, pc, scopes, spent, bob, renderedAt, reader>>
            /\ UNCHANGED captureVars
            /\ UNCHANGED observerVars
            /\ UNCHANGED hostVars
       ELSE Enable(t)

\* OpJourney::enable(opCtx)
EnableCall(t) ==
    /\ fault = "none"
    /\ svc = "running"
    /\ pc[t] \in {"none", "live", "done"}
    /\ IF ~tracking
       THEN Outcome({"none"}, t, Call("enable", kRunning, kRunning))
       ELSE IF ~runsOnClientThread(t)
       THEN Outcome({"invariant"}, t, Call("enable", kRunning, kRunning))
       ELSE IF getOpJourney[t] # <<>>
       THEN Outcome({"invariant"}, t, Call("enable", kRunning, kRunning))
       ELSE Enable(t)

\* OpJourneyStage(opCtx, stg)
StageCall(t, stg) ==
    /\ fault = "none"
    /\ svc = "running"
    /\ pc[t] \in {"none", "live"}
    /\ IF ~tracking
       THEN Outcome({"none"}, t, Call("enterStage", stg, kRunning))
       ELSE IF ~runsOnClientThread(t)
       THEN Outcome({"invariant"}, t, Call("enterStage", stg, kRunning))
       ELSE IF getOpJourney[t] = <<>>
       THEN Outcome(UndefinedOutcomes, t, Call("enterStage", stg, kRunning))
       ELSE EnterStage(t, stg)

\* makeScopedOpJourney(opCtx, stg)
ScopeCall(t, stg) ==
    /\ fault = "none"
    /\ svc = "running"
    /\ pc[t] \in {"none", "live"}
    /\ IF ~tracking
       THEN Outcome({"none"}, t, Call("ScopedStage", stg, kRunning))
       ELSE IF ~runsOnClientThread(t)
       THEN Outcome({"invariant"}, t, Call("ScopedStage", stg, kRunning))
       ELSE IF getOpJourney[t] = <<>>
       THEN Outcome(UndefinedOutcomes, t, Call("ScopedStage", stg, kRunning))
       ELSE EnterScope(t, stg)

\* ScopedStage::~ScopedStage of the innermost guard.
ScopeExit(t) ==
    /\ fault = "none"
    /\ pc[t] = "live"
    /\ scopes[t] # <<>>
    /\ IF ~runsOnClientThread(t)
       THEN Outcome({"invariant"}, t,
                    Call("~ScopedStage", scopes[t][Len(scopes[t])]._oldStage,
                         J(t)._current.stage))
       ELSE LeaveScope(t)

\* OpJourney::~OpJourney, statement by statement: the operation is destroyed
\* with its Journey attached.
DestroyCall(t) ==
    /\ fault = "none"
    /\ IF pc[t] = "dtor" /\ ~hasObserver
       THEN Outcome(UndefinedOutcomes, t, lastCall[t])
       ELSE Teardown(t)

LifecycleTick ==
    /\ fault = "none"
    /\ svc = "running"
    /\ Tick(LifecycleClock)

LifecycleInit ==
    /\ OpsInit({1}, {0})
    /\ tracking \in BOOLEAN
    /\ hasObserver = FALSE
    /\ svc = "startup"
    /\ owner \in [{1} -> {0, 1}]
    /\ fault = "none"
    /\ current = 1

LifecycleNext ==
    \/ Register
    \/ LifecycleTick
    \/ \E c \in Threads : Switch(c)
    \/ \E t \in Ops :
        \/ EnableCall(t)
        \/ \E stg \in Buckets : StageCall(t, stg)
        \/ \E stg \in Buckets : ScopeCall(t, stg)
        \/ ScopeExit(t)
        \/ DestroyCall(t)

LifecycleSpec == LifecycleInit /\ [][LifecycleNext]_vars

\* ================================================================ claims
InCapture(t) ==
    pc[t] \in {"ops", "duration", "maxLoad", "maxCas", "minLoad", "minCas", "total"}

\* A capture call has incremented opsSeen[b] and not yet finished with min[b].
MidBucket(t, b) ==
    /\ pc[t] \in {"duration", "maxLoad", "maxCas", "minLoad", "minCas"}
    /\ stage[t] = b

AllReturned == \A t \in Ops : pc[t] = "append"

\* The Journeys with a nonzero duration in bucket b, and their durations.
Seen(b) == {t \in Ops : J(t)._profile[b] # 0}
Durations(b) == {J(t)._profile[b] : t \in Seen(b)}

RECURSIVE SumOver(_, _)
SumOver(S, b) ==
    IF S = {} THEN 0
    ELSE LET t == CHOOSE x \in S : TRUE
         IN  J(t)._profile[b] + SumOver(S \ {t}, b)

Least(D) == CHOOSE d \in D : \A e \in D : d <= e
Greatest(D) == CHOOSE d \in D : \A e \in D : d >= e

Average(b) == _summary[b].duration \div _summary[b].ops

\* ---------------------------------------------------------------- C1
\* C1: in every state reached by any interleaving of the atomic steps of the
\* capture calls, totalOps is the number of capture calls that have returned;
\* so once N Journeys have completed their capture, totalOps is N.
C1_TotalOpsCountsCaptures ==
    _totalOps = Cardinality({t \in Ops : pc[t] = "append"})

C1_Witness ==
    /\ Cardinality(Ops) = NumThreads
    /\ AllReturned
    /\ _totalOps = NumThreads

\* ---------------------------------------------------------------- C2
\* C2: once every capture call has returned, whatever the interleaving, each
\* bucket holds the number of Journeys with a nonzero duration in it, the sum
\* of those durations, their minimum and their maximum (the constructor's
\* values where no Journey has one).
C2_AggregateIsOrderIndependent ==
    AllReturned =>
        \A b \in Buckets :
            /\ _summary[b].ops = Cardinality(Seen(b))
            /\ _summary[b].duration = SumOver(Seen(b), b)
            /\ _min[b] = IF Seen(b) = {} THEN NanosecondsMax ELSE Least(Durations(b))
            /\ _max[b] = IF Seen(b) = {} THEN NanosecondsMin ELSE Greatest(Durations(b))

\* Two Journeys with different durations in kRunning have both been captured.
C2_Witness ==
    /\ AllReturned
    /\ Durations(kRunning) = {1, 2}
    /\ _summary[kRunning] = [ops |-> 2, duration |-> 3]
    /\ _min[kRunning] = 1
    /\ _max[kRunning] = 2
    /\ Average(kRunning) = 1

\* ---------------------------------------------------------------- C3
\* C3: when a capture call that ran alone has returned, every bucket in which
\* the Journey has a nonzero duration d has opsSeen one larger and durationSum
\* d larger than capture found them, with max >= d and min <= d; every other
\* bucket is as capture found it; totalOps is one larger; and the Journey is
\* as capture found it.
C3_CaptureAlone ==
    \A t \in Ops :
        pc[t] \in {"append", "log"} =>
            LET o == before[t].observer
                j == J(t)
            IN  /\ \A b \in Buckets :
                      IF j._profile[b] # 0
                      THEN /\ _summary[b].ops = o._summary[b].ops + 1
                           /\ _summary[b].duration = o._summary[b].duration + j._profile[b]
                           /\ _max[b] >= j._profile[b]
                           /\ _min[b] <= j._profile[b]
                      ELSE /\ _summary[b] = o._summary[b]
                           /\ _max[b] = o._max[b]
                           /\ _min[b] = o._min[b]
                /\ _totalOps = o._totalOps + 1
                /\ getOpJourney[t] = before[t].journey

\* A second operation has been captured into a bucket the first one used,
\* and has another bucket empty.
C3_Witness ==
    \E t \in Ops :
        /\ pc[t] = "append"
        /\ before[t].observer._totalOps = 1
        /\ \E b \in Buckets :
              /\ J(t)._profile[b] # 0
              /\ before[t].observer._summary[b].ops = 1
        /\ \E b \in Buckets : J(t)._profile[b] = 0

\* ---------------------------------------------------------------- C4
\* C4 as stated: in every reachable state, every bucket with opsSeen > 0 has
\* min <= durationSum / opsSeen <= max.
C4_AverageBetweenMinAndMaxAlways ==
    \A b \in Buckets :
        _summary[b].ops > 0 => (_min[b] <= Average(b) /\ Average(b) <= _max[b])

\* C4 amended: in every reachable state, every bucket with opsSeen > 0 that no
\* capture call is part-way through (between its increment of opsSeen and the
\* end of its update of min) has min <= durationSum / opsSeen <= max.
C4_AverageBetweenMinAndMax ==
    \A b \in Buckets :
        (_summary[b].ops > 0 /\ \A t \in Ops : ~MidBucket(t, b)) =>
            (_min[b] <= Average(b) /\ Average(b) <= _max[b])

\* Two captures are through with a bucket, with different durations, and one
\* of them has not returned yet.
C4_Witness ==
    \E b \in Buckets :
        /\ _summary[b].ops = 2
        /\ \A t \in Ops : ~MidBucket(t, b)
        /\ _min[b] < _max[b]
        /\ \E t \in Ops : InCapture(t)

\* ---------------------------------------------------------------- C5
\* C5 as stated: in every reachable state opsSeen[p] <= totalOps.
C5_OpsSeenAtMostTotalOpsAlways ==
    \A b \in Buckets : _summary[b].ops <= _totalOps

\* C5 amended: in every reachable state opsSeen[p] is at most totalOps plus
\* the number of capture calls that have not returned yet; so opsSeen[p] <=
\* totalOps whenever no capture call is in progress.
C5_OpsSeenAtMostTotalOps ==
    \A b \in Buckets :
        _summary[b].ops <= _totalOps + Cardinality({t \in Ops : InCapture(t)})

C5_Witness ==
    /\ \E b \in Buckets : _summary[b].ops = 2 /\ _totalOps = 1
    /\ Cardinality({t \in Ops : InCapture(t)}) = 1

\* ---------------------------------------------------------------- C6
\* C6: what ~OpJourney renders satisfies sum(profile) + other = (the clock
\* append read) - created, and other >= 0.
C6_RenderedAddsUp ==
    \A t \in Ops :
        pc[t] = "log" =>
            LET r == bob[t][1]
                shown == [b \in Buckets |-> IF b \in DOMAIN r.stages THEN r.stages[b] ELSE 0]
            IN  /\ SumBuckets(J(t)._profile) + r.other = renderedAt[t] - J(t)._created
                /\ SumBuckets(shown) = SumBuckets(J(t)._profile)
                /\ r.other >= 0

C6_Witness ==
    \E t \in Ops :
        /\ pc[t] = "log"
        /\ J(t)._created > 0
        /\ SumBuckets(J(t)._profile) > 0
        /\ lastCall[t].op = "~OpJourney"

\* ---------------------------------------------------------------- C7
\* C7: a live Journey has sum(profile) = current.entered - created, with
\* created <= current.entered <= now.
C7_ProfileCoversCreatedToEntered ==
    \A t \in Ops :
        pc[t] = "live" =>
            /\ SumBuckets(J(t)._profile) = J(t)._current.entered - J(t)._created
            /\ J(t)._created <= J(t)._current.entered
            /\ J(t)._current.entered <= clock

C7_Witness ==
    \E t \in Ops :
        /\ pc[t] = "live"
        /\ Cardinality({b \in Buckets : J(t)._profile[b] > 0}) >= 2

\* ---------------------------------------------------------------- C8
\* C8: a step that is enterStage(X) while X is the current stage leaves the
\* Journey (profile, current.stage, current.entered) as it was.
C8_SameStageIsNoOp ==
    [][\A t \in Ops : \A stg \in Buckets :
          (EnterStage(t, stg) /\ J(t)._current.stage = stg) =>
              getOpJourney'[t] = getOpJourney[t]]_vars

\* enterStage was just called with the current stage, some time after that
\* stage was entered.
C8_Witness ==
    \E t \in Ops :
        /\ pc[t] = "live"
        /\ lastCall[t].op = "enterStage"
        /\ lastCall[t].stage = lastCall[t].oldStage
        /\ J(t)._current.entered < clock

\* ---------------------------------------------------------------- C9
\* C9: from enterStage(kDestroyed) on, every bucket of the profile is the
\* clock time that passed while its stage was current, and the rendered other
\* is the time between enterStage(kDestroyed) and the clock read of append.
C9_ProfileIsTimeSpent ==
    \A t \in Ops :
        /\ (pc[t] = "dtor" \/ InCapture(t) \/ pc[t] \in {"append", "log"}) =>
              \A b \in Buckets : J(t)._profile[b] = spent[t][b]
        /\ pc[t] = "log" =>
              bob[t][1].other = renderedAt[t] - J(t)._current.entered

\* kRunning until 10, kNetworkSync until 15, kReleased until 17, rendered at 17.
C9_Witness ==
    \E t \in Ops :
        /\ pc[t] = "log"
        /\ J(t)._profile = [b \in Buckets |->
                              IF b = kRunning THEN 10 ELSE IF b = kNetworkSync THEN 5 ELSE 2]
        /\ J(t)._current.entered = 17
        /\ renderedAt[t] = 17
        /\ bob[t][1].other = 0

\* ---------------------------------------------------------------- C10
\* C10: constructing a ScopedStage records the current stage and switches to
\* the supplied one; when a guard is destroyed in stack order the current
\* stage is the one that was current just before that guard was constructed,
\* the outermost guard included, whatever was entered inside its scope.
C10_ScopedStageRestores ==
    \A t \in Ops :
        /\ (pc[t] = "live" /\ lastCall[t].op = "ScopedStage") =>
              /\ J(t)._current.stage = lastCall[t].stage
              /\ scopes[t][Len(scopes[t])]._oldStage = lastCall[t].oldStage
        /\ (pc[t] = "live" /\ lastCall[t].op = "~ScopedStage") =>
              J(t)._current.stage = lastCall[t].entry

\* The outermost guard has just been destroyed after an explicit enterStage
\* inside its scope, and its destructor had a stage to switch back from.
C10_Witness ==
    \E t \in Ops :
        /\ pc[t] = "live"
        /\ lastCall[t].op = "~ScopedStage"
        /\ scopes[t] = <<>>
        /\ lastCall[t].explicit
        /\ lastCall[t].oldStage # lastCall[t].entry

\* ---------------------------------------------------------------- C11
\* C11: ~OpJourney enters kDestroyed, then calls capture once, then renders:
\* capture never fails its invariant, every state from the capture call to the
\* render has the Journey in kDestroyed, nothing is rendered before capture
\* has returned, and an operation whose teardown is over has been captured
\* exactly once and rendered.
C11_TeardownOrder ==
    \A t \in Ops :
        /\ pc[t] # "abort"
        /\ (pc[t] = "dtor" \/ InCapture(t) \/ pc[t] \in {"append", "log"}) =>
              J(t)._current.stage = kDestroyed
        /\ pc[t] \in {"none", "live", "dtor"} =>
              (counts[t].captures = 0 /\ bob[t] = <<>>)
        /\ (InCapture(t) \/ pc[t] = "append") =>
              (counts[t].captures = 1 /\ bob[t] = <<>>)
        /\ pc[t] \in {"log", "done"} =>
              (counts[t].captures = 1 /\ Len(bob[t]) = 1)

\* A second operation has been torn down after some time in a stage.
C11_Witness ==
    \E t \in Ops :
        /\ pc[t] = "done"
        /\ counts[t].captures = 1
        /\ _totalOps = 2
        /\ bob[t][1].stages # <<>>

\* ---------------------------------------------------------------- C12
\* C12: with every thread scheduled again and again, the capture calls that
\* are in progress, whatever their number and their durations, have eventually
\* all returned.
C12_CaptureReturns == <>AllReturned

\* A compare-and-swap on _max has failed in the first bucket a capture call
\* works on, and the call is going round the loop again.
C12_Witness ==
    \E t \in Ops :
        /\ pc[t] = "maxLoad"
        /\ stage[t] = NextBucket(J(t), 0)
        /\ max[t] # 0

\* ---------------------------------------------------------------- C13
\* C13: no step makes the Observer smaller: _totalOps, ops and duration of a
\* bucket never decrease, _max never decreases, _min never increases, and a
\* field that has left its initial value never returns to it.
C13_ObserverOnlyGrows ==
    [][ /\ _totalOps' >= _totalOps
        /\ \A b \in Buckets :
              /\ _summary'[b].ops >= _summary[b].ops
              /\ _summary'[b].duration >= _summary[b].duration
              /\ _max'[b] >= _max[b]
              /\ _min'[b] <= _min[b]
              /\ _summary[b].ops # 0 => _summary'[b].ops # 0
              /\ _summary[b].duration # 0 => _summary'[b].duration # 0
              /\ _max[b] # NanosecondsMin => _max'[b] # NanosecondsMin
              /\ _min[b] # NanosecondsMax => _min'[b] # NanosecondsMax
        /\ (_totalOps # 0 => _totalOps' # 0) ]_vars

\* Two operations have been captured into one bucket with different durations,
\* so its _max was raised twice or its _min lowered twice.
C13_Witness ==
    \E b \in Buckets :
        /\ _summary[b].ops = 2
        /\ _max[b] > _min[b]
        /\ _min[b] >= 1
        /\ _totalOps >= 1

\* ---------------------------------------------------------------- C18
\* C18 as stated: whenever a compare-and-swap of the max loop is about to fail
\* (the bound is no longer the value the writer loaded), the bound is already
\* at or past the writer's duration; symmetrically for the min loop.
C18_FailedCasMeansBoundPastCandidate ==
    \A t \in Ops :
        /\ (pc[t] = "maxCas" /\ _max[stage[t]] # max[t]) =>
              _max[stage[t]] >= durNanos(t)
        /\ (pc[t] = "minCas" /\ _min[stage[t]] # min[t]) =>
              _min[stage[t]] <= durNanos(t)

\* C18: a writer attempts a compare-and-swap only with a loaded bound that is
\* short of its duration, and the bound it then meets is never on the wrong
\* side of the loaded value: a failing compare-and-swap meets a bound that
\* another writer has advanced past the LOADED value, not necessarily past
\* the writer's duration.
C18_FailedCasMeansBoundAdvanced ==
    \A t \in Ops :
        /\ pc[t] = "maxCas" =>
              /\ durNanos(t) > max[t]
              /\ _max[stage[t]] >= max[t]
        /\ pc[t] = "minCas" =>
              /\ durNanos(t) < min[t]
              /\ _min[stage[t]] <= min[t]

\* A compare-and-swap on _max is about to fail although the bound is still
\* short of the writer's duration: the writer will go round the loop again.
C18_Witness ==
    \E t \in Ops :
        /\ pc[t] = "maxCas"
        /\ _max[stage[t]] # max[t]
        /\ _max[stage[t]] > max[t]
        /\ _max[stage[t]] < durNanos(t)

\* ---------------------------------------------------------------- C15
\* C15: while the tracking flag is false no step attaches a Journey, makes a
\* guard, creates the Observer, changes a field of the Observer or ends the
\* process: enable, the startup registration, OpJourneyStage and
\* makeScopedOpJourney all return without a trace, whichever thread makes them.
C15_DisabledTrackingDoesNothing ==
    [][tracking = FALSE =>
          /\ getOpJourney' = getOpJourney
          /\ \A t \in Ops : getOpJourney'[t] = <<>>
          /\ scopes' = scopes
          /\ counts' = counts
          /\ hasObserver' = FALSE
          /\ UNCHANGED observerVars
          /\ _totalOps' = 0
          /\ fault' = "none"]_vars

\* With tracking disabled the startup registration has run and a call site has
\* been executed on the operation.
C15_Witness ==
    /\ tracking = FALSE
    /\ svc = "running"
    /\ lastCall[1].op = "ScopedStage"
    /\ lastCall[1].stage = kNetworkSync

\* ---------------------------------------------------------------- C16
\* C16: with tracking enabled, enable called by the operation's own thread
\* attaches a fresh Journey in kRunning when none is attached, and otherwise
\* ends the process with an invariant failure, the attached Journey untouched;
\* no operation ever gets a second Journey.
C16_EnableOnce ==
    [][\A t \in Ops :
          /\ (tracking /\ runsOnClientThread(t) /\ EnableCall(t)) =>
                IF getOpJourney[t] = <<>>
                THEN /\ getOpJourney'[t] = <<OpJourneyCtor(kRunning, clock)>>
                     /\ J(t)'._current.stage = kRunning
                     /\ fault' = "none"
                ELSE /\ fault' = "invariant"
                     /\ getOpJourney' = getOpJourney
          /\ counts'[t].journeys <= 1]_vars

\* A second enable on an operation whose Journey had moved on ended the
\* process; the Journey is still the one the first enable attached.
C16_Witness ==
    /\ fault = "invariant"
    /\ lastCall[1].op = "enable"
    /\ owner[1] = current
    /\ getOpJourney[1] # <<>>
    /\ J(1)._current.stage = kNetworkSync
    /\ counts[1].journeys = 1

\* ---------------------------------------------------------------- C17
\* Any call that reaches the Journey of operation t, made by the running thread.
JourneyCall(t) ==
    \/ EnableCall(t)
    \/ \E stg \in Buckets : StageCall(t, stg)
    \/ \E stg \in Buckets : ScopeCall(t, stg)
    \/ ScopeExit(t)
    \/ DestroyCall(t)

\* C17 as stated: with tracking enabled, every call on an operation made by a
\* thread other than the thread of the operation's Client ends the process with
\* an invariant failure and leaves the Journey as it was.
C17_CrossThreadAlwaysFaults ==
    [][\A t \in Ops :
          (tracking /\ owner[t] # 0 /\ owner[t] # current /\ JourneyCall(t)) =>
              /\ fault' = "invariant"
              /\ getOpJourney' = getOpJourney]_vars

\* ---------------------------------------------------------------- C19
\* C19 as stated: with tracking enabled, once OpJourneyStage or the constructor
\* of a ScopedStage has been executed on an operation that enable was never
\* called on, the process has ended with an invariant failure.
C19_MissingJourneyAsserts ==
    \A t \in Ops :
        (/\ tracking
         /\ pc[t] = "none"
         /\ getOpJourney[t] = <<>>
         /\ lastCall[t].op \in {"enterStage", "ScopedStage"}) =>
            fault = "invariant"

Shown == {b \in Buckets : Seen(b) # {}}

\* C14: no step of append changes a field of the Observer; its first load of
\* _totalOps comes before every per-phase load and is never ahead of the
\* counter afterwards; the document ends with operations = that first load and
\* stable = TRUE exactly when no capture call has returned since; and an
\* append entered after every capture call returned reports stable, the
\* number of captures as operations, and for exactly the phases with a capture
\* their least, greatest and average (sum divided by count) duration, in order.
C14_AppendSnapshot ==
    [][/\ (reader' # reader) => UNCHANGED observerVars
       /\ (reader.pc = "idle") => reader.bob = <<>>
       /\ (reader.pc # "idle") => _totalOps >= reader.ops
       /\ (reader.pc = "stable" /\ reader'.pc = "done") =>
             LET doc      == reader'.bob
                 last     == doc[Len(doc)]
                 returned == Cardinality({t \in Ops : pc[t] = "append"})
             IN  /\ last.operations = reader.returned
                 /\ last.stable = (returned = reader.returned)
                 /\ (reader.returned = Cardinality(Ops)) =>
                       /\ last.stable
                       /\ last.operations = Cardinality(Ops)
                       /\ Len(doc) = Cardinality(Shown) + 1
                       /\ \A i \in 1..(Len(doc) - 1) :
                             /\ doc[i].stage \in Shown
                             /\ i > 1 => doc[i - 1].stage < doc[i].stage
                             /\ doc[i].min = Least(Durations(doc[i].stage))
                             /\ doc[i].max = Greatest(Durations(doc[i].stage))
                             /\ doc[i].avg = SumOver(Seen(doc[i].stage), doc[i].stage)
                                               \div Cardinality(Seen(doc[i].stage))]_vars

\* An append returned unstable: one capture call had returned when it read
\* _totalOps first, a second one returned before it read the counter again.
C14_Witness ==
    /\ reader.pc = "done"
    /\ Len(reader.bob) >= 2
    /\ reader.bob[Len(reader.bob)].operations = 1
    /\ reader.bob[Len(reader.bob)].stable = FALSE
    /\ _totalOps = 2

====
